---- MODULE Spec2Model ----
(***************************************************************************)
(* State-machine model of src/server.py (mcp-com-server): the object      *)
(* registry of COM objects and the eight MCP tools that read and write    *)
(* it.  The foreign runtime (win32com) is the environment: every call     *)
(* into it either raises or returns a value drawn from a small set.       *)
(* Python strings the code inspects character by character are sequences  *)
(* of one-character strings; Text renders them for messages.  An f-string *)
(* is the sequence of its parts.                                          *)
(* calls and outcomes record, for the request being answered, the foreign *)
(* calls made and what each answered.  The caller sends any request       *)
(* (Spec), or the fixed sequence of requests of SpecScenario;             *)
(* SpecClassifier lets members hand back objects with every combination   *)
(* of the properties the two is-a-COM-object tests look at.               *)
(***************************************************************************)
EXTENDS Integers, Sequences, FiniteSets, TLC

\* ------------------------------------------------------------------ bounds
MaxHandles == 2
MaxObjs == 2
MaxIds == 2

\* --------------------------------------------------------- HRESULT codes
S_OK == "0x00000000"
S_FALSE == "0x00000001"
E_FAIL == "0x80004005"
E_NOINTERFACE == "0x80004002"
E_INVALIDARG == "0x80070057"
E_ACCESSDENIED == "0x80070005"
DISP_E_MEMBERNOTFOUND == "0x80020003"

\* the codes the module defines
ResultVocabulary ==
    {S_OK, S_FALSE, E_FAIL, E_NOINTERFACE, E_INVALIDARG, E_ACCESSDENIED, DISP_E_MEMBERNOTFOUND}

hr_to_string(hr) ==
    CASE hr = S_OK -> "S_OK (0x00000000) - Operation successful"
      [] hr = S_FALSE -> "S_FALSE (0x00000001) - Successful but false condition"
      [] hr = E_FAIL -> "E_FAIL (0x80004005) - Unspecified failure"
      [] hr = E_NOINTERFACE -> "E_NOINTERFACE (0x80004002) - Interface not supported"
      [] hr = E_INVALIDARG -> "E_INVALIDARG (0x80070057) - One or more arguments are invalid"
      [] hr = E_ACCESSDENIED -> "E_ACCESSDENIED (0x80070005) - Access denied"
      [] hr = DISP_E_MEMBERNOTFOUND -> "DISP_E_MEMBERNOTFOUND  (0x80020003) - Member not found"
      [] OTHER -> "Unknown HRESULT: " \o hr

\* ---------------------------------------------------------- Python values
None == [t |-> "NoneType"]
PyStr(s) == [t |-> "str", s |-> s]
PyInt(i) == [t |-> "int", i |-> i]
PyBool(b) == [t |-> "bool", b |-> b]
PyList(items) == [t |-> "list", items |-> items]

RECURSIVE Text(_)
Text(chars) == IF chars = <<>> THEN "" ELSE chars[1] \o Text(Tail(chars))

\* s.startswith(prefix), s.endswith(suffix), sub in s, on character sequences
StartsWith(s, prefix) ==
    Len(s) >= Len(prefix) /\ SubSeq(s, 1, Len(prefix)) = prefix
EndsWith(s, suffix) ==
    Len(s) >= Len(suffix) /\ SubSeq(s, Len(s) - Len(suffix) + 1, Len(s)) = suffix
Contains(s, sub) ==
    \E i \in 1..(Len(s) + 1) : i + Len(sub) - 1 <= Len(s) /\ SubSeq(s, i, i + Len(sub) - 1) = sub

\* the outcome of a foreign-runtime call that raised
Raised == [t |-> "raised"]
\* str(e) of whatever exception the foreign runtime raised
ErrText == "<error text>"
Unknown == "Unknown"

\* ------------------------------------------------------- the foreign world
\* uuid.uuid4() draws from this space; str() of it is the handle
Handles == {"h" \o ToString(i) : i \in 1..MaxHandles}
\* native objects the runtime can hand out (identity of the Python object)
Objs == 1..MaxObjs
\* a helper object of the binding is a Python object of its own, never one of Objs
HelperObjs == {MaxObjs + 1}

IdProg == <<"C", "a", "l", "c", ".", "A", "p", "p">>
IdClsid == <<"{", "0", "0", "0", "2", "}">>
Identifiers == {IdProg, IdClsid}
Iids == {"{00020400-0000-0000-C000-000000000046}"}

\* The runtime knows one class: its ProgID is IdProg and its CLSID is IdClsid.
\* What the identity lookups answer when they do not raise:
ResolvedClsid == "{0002}"
ResolvedProgId == "Calc.App"

\* ------------------------------------------- values the runtime hands back
\* A foreign value is what the classifiers can observe of it: type(v).__name__,
\* str(type(v).__module__), str(v), hasattr(v, "_oleobj_"), isinstance(v,
\* (CDispatch, CoClassBaseClass, DispatchBaseClass)), callable(v), and, for an
\* object, which native object it is.
ModDynamic == <<"w", "i", "n", "3", "2", "c", "o", "m", ".", "c", "l", "i", "e", "n", "t", ".", "d", "y", "n", "a", "m", "i", "c">>
ModClient == <<"w", "i", "n", "3", "2", "c", "o", "m", ".", "c", "l", "i", "e", "n", "t">>
ModBuiltins == <<"b", "u", "i", "l", "t", "i", "n", "s">>
ReprCom == <<"<", "C", "O", "M", "O", "b", "j", "e", "c", "t", " ", "C", "a", "l", "c", ">">>
ReprVariant == <<"<", "V", "A", "R", "I", "A", "N", "T", ">">>

\* a late-bound dispatch wrapper around native object o
DispatchValue(o) ==
    [t |-> "object", tname |-> "CDispatch", module |-> ModDynamic, repr |-> ReprCom,
     has_oleobj |-> TRUE, isinst |-> TRUE, callable |-> TRUE, ref |-> o]
\* a binding helper object that is not a dispatch wrapper
HelperValue(o) ==
    [t |-> "object", tname |-> "VARIANT", module |-> ModClient, repr |-> ReprVariant,
     has_oleobj |-> FALSE, isinst |-> FALSE, callable |-> FALSE, ref |-> o]
MethodValue == [t |-> "method"]

PlainValues == {PyInt(42), PyBool(FALSE)}
ObjectValues == {DispatchValue(o) : o \in Objs} \cup {HelperValue(o) : o \in HelperObjs}
RetValues == PlainValues \cup ObjectValues

\* every combination of what the two tests look at, on an object of the binding
ModGenPy == <<"w", "i", "n", "3", "2", "c", "o", "m", ".", "g", "e", "n", "_", "p", "y", ".", "x">>
MarkedValues ==
    {[t |-> "object", tname |-> n, module |-> mo, repr |-> s, has_oleobj |-> a,
      isinst |-> b, callable |-> FALSE, ref |-> o] :
        n \in {"CDispatch", "VARIANT"}, mo \in {ModBuiltins, ModClient, ModGenPy},
        s \in {ReprCom, ReprVariant}, a \in BOOLEAN, b \in BOOLEAN, o \in HelperObjs}

TypeName(v) == IF v.t = "object" THEN v.tname ELSE v.t
ModuleOf(v) == IF v.t = "object" THEN v.module ELSE ModBuiltins
StrOf(v) ==
    CASE v.t = "object" -> v.repr
      [] v.t = "int" -> IF v.i = 42 THEN <<"4", "2">> ELSE <<"0">>
      [] v.t = "bool" -> IF v.b THEN <<"T", "r", "u", "e">> ELSE <<"F", "a", "l", "s", "e">>
      [] v.t = "NoneType" -> <<"N", "o", "n", "e">>
      [] OTHER -> <<"<", "b", "o", "u", "n", "d", ">">>
HasOleobj(v) == v.t = "object" /\ v.has_oleobj
IsBindingInstance(v) == v.t = "object" /\ v.isinst
Callable(v) == v.t = "method" \/ (v.t = "object" /\ v.callable)

\* mutant: the string rendering is not looked at
InvokeIsComObjectNoStr(v) ==
    \/ HasOleobj(v)
    \/ TypeName(v) = "CDispatch"
    \/ Contains(ModuleOf(v), <<"w", "i", "n", "3", "2", "c", "o", "m">>)

\* the test of invoke_method on a method's return value
InvokeIsComObject(v) ==
    \/ HasOleobj(v)
    \/ TypeName(v) = "CDispatch"
    \/ Contains(ModuleOf(v), <<"w", "i", "n", "3", "2", "c", "o", "m">>)
    \/ Contains(StrOf(v), <<"<", "C", "O", "M", "O", "b", "j", "e", "c", "t">>)

\* the test of get_property on a property's value
GetPropertyIsComObject(v) ==
    \/ TypeName(v) = "CDispatch"
    \/ IsBindingInstance(v)
    \/ Contains(ModuleOf(v), <<"w", "i", "n", "3", "2", "c", "o", "m", ".", "g", "e", "n", "_", "p", "y">>)

\* the members of a native object: dir(obj), and what getattr can answer
NameQuit == <<"Q", "u", "i", "t">>
NameVisible == <<"V", "i", "s", "i", "b", "l", "e">>
NameOnClick == <<"o", "n", "C", "l", "i", "c", "k">>
NameAbsent == <<"N", "o", "p", "e">>
DirNames == <<NameQuit, NameVisible, NameOnClick>>
MethodNames == {NameQuit}
PropertyNames == {NameVisible, NameOnClick}
ReqNames == {NameQuit, NameVisible, NameAbsent}
\* Quit is a bound method, onClick is an unset handler, Visible holds any of
\* the values the runtime hands back (returns)
AttrValues(name, returns) ==
    IF name \in MethodNames THEN {MethodValue}
    ELSE IF name = NameOnClick THEN {None}
    ELSE returns
\* mutant: the existence check is skipped
HasMemberAlways(name) == TRUE
\* hasattr(obj, name) when the lookup does not raise
HasMember(name) == name \in MethodNames \cup PropertyNames

\* the (prog_id, clsid) pairs the lookup on a returned object can end with:
\* GetCLSID raises, ProgIDFromCLSID raises, both answer
Resolutions == {<<Unknown, Unknown>>, <<Unknown, ResolvedClsid>>,
                <<ResolvedProgId, ResolvedClsid>>}
ResolutionCalls(r) ==
    IF r[2] = Unknown THEN <<"GetCLSID">> ELSE <<"GetCLSID", "ProgIDFromCLSID">>
\* what those calls answered
ResolutionOutcomes(r) ==
    IF r[2] = Unknown THEN <<Raised>>
    ELSE <<PyStr(r[2]), IF r[1] = Unknown THEN Raised ELSE PyStr(r[1])>>

\* ------------------------------------------------------------------ state
VARIABLES
    object_registry,  \* runtime_id -> [object, prog_id, clsid]
    COM_ALLOWLIST,    \* list of identifiers, fixed at start
    issued,           \* the ids uuid.uuid4() has produced so far
    req,              \* the tool call last served
    resp,             \* the dictionary it returned
    calls,            \* the foreign-runtime calls it made, in order
    outcomes,         \* what each of those calls answered: a value, or Raised
    caller,           \* the caller: whether it follows the script, and its log
    frames            \* the two handler activations in progress when requests interleave

vars == <<object_registry, COM_ALLOWLIST, issued, req, resp, calls, outcomes, caller,
          frames>>

AllowLists == {<<>>, <<IdProg>>}

Entry(o, p, c) == [object |-> o, prog_id |-> p, clsid |-> c]

\* mutant: the assignment replaces the whole dictionary
PutAlone(reg, key, value) == [k \in {key} |-> value]
\* dict[key] = value
Put(reg, key, value) ==
    [k \in (DOMAIN reg) \cup {key} |-> IF k = key THEN value ELSE reg[k]]
\* mutant: del leaves the key in place
DelNothing(reg, key) == reg
\* del dict[key]
Del(reg, key) == [k \in (DOMAIN reg) \ {key} |-> reg[k]]

\* the values uuid.uuid4() can return next: ids it has not produced before
uuid4(seen) == Handles \ seen

\* a caller that sends any request, and one that sends the requests of Script in
\* order and logs every exchange
FreeCaller == [scripted |-> FALSE, log |-> <<>>]
ScriptedCaller == [scripted |-> TRUE, log |-> <<>>]

NoRequest == [op |-> "none"]
NoReply == [result |-> "none"]
\* the server is waiting for the next tool call
Idle == req = NoRequest

\* a handler activation: its request, the statement it is at, its local
\* com_object and what it returned
NoFrame == [request |-> NoRequest, pc |-> "none", com_object |-> None, reply |-> NoReply]
Frame(r) == [request |-> r, pc |-> "check", com_object |-> None, reply |-> NoReply]
NoFrames == [other |-> NoFrame, dispose |-> NoFrame]

Init ==
    /\ object_registry = <<>>
    /\ COM_ALLOWLIST = <<>>
    /\ issued = {}
    /\ req = NoRequest
    /\ resp = NoReply
    /\ calls = <<>>
    /\ outcomes = <<>>
    /\ caller = FreeCaller
    /\ frames = NoFrames

\* the same program started with any of the allow-lists
InitAllowlist ==
    /\ object_registry = <<>>
    /\ COM_ALLOWLIST \in AllowLists
    /\ issued = {}
    /\ req = NoRequest
    /\ resp = NoReply
    /\ calls = <<>>
    /\ outcomes = <<>>
    /\ caller = FreeCaller
    /\ frames = NoFrames

\* ----------------------------------------------------------- CreateObject
\* win32com.client.Dispatch builds a new wrapper object: one that no registry
\* entry holds yet (an object the registry let go of may come back)
Dispatch(reg) == Objs \ {reg[h].object : h \in DOMAIN reg}

\* mutant: the empty list is not treated as "allow all"
is_com_object_allowed_strict(identifier, allowlist) ==
    \E i \in 1..Len(allowlist) : allowlist[i] = identifier

is_com_object_allowed(identifier, allowlist) ==
    IF allowlist = <<>> THEN TRUE
    ELSE \E i \in 1..Len(allowlist) : allowlist[i] = identifier

is_clsid(identifier) ==
    StartsWith(identifier, <<"{">>) /\ EndsWith(identifier, <<"}">>)

\* mutant: the identifier is always stored as the ProgID
CreateEntryAsProgId(com_object, identifier, resolved) ==
    Entry(com_object, Text(identifier), IF resolved THEN ResolvedClsid ELSE Unknown)

\* the entry Create stores; resolved: whether the identity lookup answered
CreateEntry(com_object, identifier, resolved) ==
    IF is_clsid(identifier)
    THEN Entry(com_object,
               IF resolved THEN ResolvedProgId ELSE Unknown,
               Text(identifier))
    ELSE Entry(com_object,
               Text(identifier),
               IF resolved THEN ResolvedClsid ELSE Unknown)

CreateDenied(identifier) ==
    [result |-> E_ACCESSDENIED,
     message |-> <<hr_to_string(E_ACCESSDENIED), ": ", Text(identifier),
                   " is not on the ALLOWLIST">>,
     runtime_id |-> None]

\* mutant: the reply carries the identifier instead of the new runtime_id
CreateOkReturnsIdentifier(identifier, runtime_id) ==
    [result |-> S_OK,
     message |-> <<hr_to_string(S_OK), ": Successfully created COM object: ",
                   Text(identifier)>>,
     runtime_id |-> PyStr(Text(identifier))]

CreateOk(identifier, runtime_id) ==
    [result |-> S_OK,
     message |-> <<hr_to_string(S_OK), ": Successfully created COM object: ",
                   Text(identifier)>>,
     runtime_id |-> PyStr(runtime_id)]

CreateFailed ==
    [result |-> E_FAIL,
     message |-> <<hr_to_string(E_FAIL), ": Failed to create COM object: ", ErrText>>,
     runtime_id |-> None]

co_create_instance ==
    /\ Idle
    /\ \E identifier \in Identifiers :
        /\ req' = [op |-> "CreateObject", identifier |-> identifier]
        /\ UNCHANGED <<COM_ALLOWLIST, caller, frames>>
        /\ IF ~is_com_object_allowed(identifier, COM_ALLOWLIST)
           THEN /\ resp' = CreateDenied(identifier)
                /\ calls' = <<>>
                /\ outcomes' = <<>>
                /\ UNCHANGED <<object_registry, issued>>
           ELSE \/ \* win32com.client.Dispatch raises
                   /\ resp' = CreateFailed
                   /\ calls' = <<"Dispatch">>
                   /\ outcomes' = <<Raised>>
                   /\ UNCHANGED <<object_registry, issued>>
                \/ \E com_object \in Dispatch(object_registry), runtime_id \in uuid4(issued),
                      resolved \in BOOLEAN :
                       /\ issued' = issued \cup {runtime_id}
                       /\ object_registry' =
                              Put(object_registry, runtime_id,
                                  CreateEntry(com_object, identifier, resolved))
                       /\ resp' = CreateOk(identifier, runtime_id)
                       /\ calls' = <<"Dispatch",
                                     IF is_clsid(identifier) THEN "ProgIDFromCLSID"
                                     ELSE "GetCLSIDFromProgID">>
                       /\ outcomes' = <<DispatchValue(com_object),
                                        IF ~resolved THEN Raised
                                        ELSE IF is_clsid(identifier) THEN PyStr(ResolvedProgId)
                                        ELSE PyStr(ResolvedClsid)>>

\* --------------------------------------------------------- shared replies
InvalidId(runtime_id) ==
    <<hr_to_string(E_INVALIDARG), ": Invalid object ID: ", runtime_id>>

\* --------------------------------------------------------- QueryInterface
QueryInvalid(runtime_id) ==
    [result |-> E_INVALIDARG, message |-> InvalidId(runtime_id), runtime_id |-> None]

\* mutant: a refused interface is reported as an unspecified failure
QueryFailedUnspecified ==
    [result |-> E_FAIL,
     message |-> <<hr_to_string(E_FAIL), ": Interface not supported: ", ErrText>>,
     runtime_id |-> None]

QueryFailed ==
    [result |-> E_NOINTERFACE,
     message |-> <<hr_to_string(E_NOINTERFACE), ": Interface not supported: ", ErrText>>,
     runtime_id |-> None]

QueryOk(iid, new_runtime_id) ==
    [result |-> S_OK,
     message |-> <<hr_to_string(S_OK), ": Successfully queried interface: ", iid,
                   ". New runtime ID: ", new_runtime_id>>,
     runtime_id |-> PyStr(new_runtime_id)]

\* mutant: the interface replaces the entry of the handle queried
QueryKeyOverwrites(runtime_id, new_runtime_id) == runtime_id

\* the key query_interface stores the interface under
QueryKey(runtime_id, new_runtime_id) == new_runtime_id

query_interface ==
    /\ Idle
    /\ \E runtime_id \in Handles, iid \in Iids :
        /\ req' = [op |-> "QueryInterface", runtime_id |-> runtime_id, iid |-> iid]
        /\ UNCHANGED <<COM_ALLOWLIST, caller, frames>>
        /\ IF runtime_id \notin DOMAIN object_registry
           THEN /\ resp' = QueryInvalid(runtime_id)
                /\ calls' = <<>>
                /\ outcomes' = <<>>
                /\ UNCHANGED <<object_registry, issued>>
           ELSE \/ \* com_object.QueryInterface raises
                   /\ resp' = QueryFailed
                   /\ calls' = <<"QueryInterface">>
                   /\ outcomes' = <<Raised>>
                   /\ UNCHANGED <<object_registry, issued>>
                \/ \E interface \in Objs, new_runtime_id \in uuid4(issued),
                      r \in Resolutions :
                       /\ issued' = issued \cup {new_runtime_id}
                       /\ object_registry' =
                              Put(object_registry, QueryKey(runtime_id, new_runtime_id),
                                  Entry(interface, r[1], r[2]))
                       /\ resp' = QueryOk(iid, new_runtime_id)
                       /\ calls' = <<"QueryInterface">> \o ResolutionCalls(r)
                       /\ outcomes' = <<DispatchValue(interface)>> \o ResolutionOutcomes(r)

\* ----------------------------------------------------- GetTypeInformation
IsPrivate(name) == StartsWith(name, <<"_">>)
Upper == {"A", "B", "C", "D", "E", "F", "G", "H", "I", "J", "K", "L", "M",
          "N", "O", "P", "Q", "R", "S", "T", "U", "V", "W", "X", "Y", "Z"}
\* name.startswith("on") and name[2:3].isupper()
IsEventName(name) == StartsWith(name, <<"o", "n">>) /\ Len(name) >= 3 /\ name[3] \in Upper

EmptyTypeInfo ==
    [methods |-> <<>>, properties |-> <<>>, events |-> <<>>, errors_encountered |-> <<>>]

\* one pass of the loop of get_type_info: attr is what getattr(obj, name) gave
TypeInfoStep(info, name, attr) ==
    IF attr = Raised
    THEN [info EXCEPT !.errors_encountered =
              Append(@, [member |-> Text(name), error |-> ErrText])]
    ELSE IF Callable(attr)
    THEN [info EXCEPT !.methods =
              Append(@, [name |-> Text(name), is_private |-> IsPrivate(name),
                         signature |-> Unknown])]
    ELSE IF IsEventName(name)
    THEN [info EXCEPT !.events = Append(@, Text(name))]
    ELSE [info EXCEPT !.properties =
              Append(@, [name |-> Text(name), type |-> TypeName(attr),
                         is_private |-> IsPrivate(name),
                         is_com_object |-> IF attr = None THEN FALSE ELSE HasOleobj(attr)])]

\* mutant: the loop ends at the first member that cannot be read
RECURSIVE get_type_info_aborts(_, _, _, _)
get_type_info_aborts(names, attrs, i, info) ==
    IF i > Len(names) THEN info
    ELSE IF attrs[i] = Raised THEN TypeInfoStep(info, names[i], attrs[i])
    ELSE get_type_info_aborts(names, attrs, i + 1, TypeInfoStep(info, names[i], attrs[i]))

\* get_type_info over dir(obj) = names, attrs[i] the outcome of getattr on names[i]
RECURSIVE get_type_info(_, _, _, _)
get_type_info(names, attrs, i, info) ==
    IF i > Len(names) THEN info
    ELSE get_type_info(names, attrs, i + 1, TypeInfoStep(info, names[i], attrs[i]))

\* the outcomes getattr can have on each name of dir(obj)
\* (which native object an attribute is does not show in the description)
DescribeValues(name) ==
    {v \in AttrValues(name, RetValues) : v.t = "object" => v.ref \in {1} \cup HelperObjs}
AttrOutcomes ==
    {a \in [1..Len(DirNames) -> {Raised, MethodValue, None} \cup RetValues] :
        \A i \in 1..Len(DirNames) : a[i] = Raised \/ a[i] \in DescribeValues(DirNames[i])}

TypeInfoInvalid(runtime_id) ==
    [result |-> E_INVALIDARG, message |-> InvalidId(runtime_id), type_info |-> None]

TypeInfoFailed ==
    [result |-> E_FAIL,
     message |-> <<hr_to_string(E_FAIL), ": Failed to get type information: ", ErrText>>,
     type_info |-> None]

TypeInfoOk(type_info) ==
    [result |-> S_OK,
     message |-> <<hr_to_string(S_OK), ": Successfully retrieved type information">>,
     type_info |-> type_info]

get_type_information ==
    /\ Idle
    /\ \E runtime_id \in Handles :
        /\ req' = [op |-> "GetTypeInformation", runtime_id |-> runtime_id]
        /\ UNCHANGED <<object_registry, COM_ALLOWLIST, issued, caller, frames>>
        /\ IF runtime_id \notin DOMAIN object_registry
           THEN /\ resp' = TypeInfoInvalid(runtime_id)
                /\ calls' = <<>>
                /\ outcomes' = <<>>
           ELSE \/ \* dir(obj) raises
                   /\ resp' = TypeInfoFailed
                   /\ calls' = <<"dir">>
                   /\ outcomes' = <<Raised>>
                \/ \E attrs \in AttrOutcomes :
                       /\ resp' = TypeInfoOk(get_type_info(DirNames, attrs, 1, EmptyTypeInfo))
                       /\ calls' = <<"dir">> \o [i \in 1..Len(DirNames) |-> "getattr"]
                       /\ outcomes' = <<PyList(DirNames)>> \o attrs

\* ----------------------------------------------------------- InvokeMethod
InvokeReply(result, detail, return_value) ==
    [result |-> result, message |-> <<hr_to_string(result)>> \o detail,
     return_value |-> return_value]

InvokeInvalid(runtime_id) ==
    [result |-> E_INVALIDARG, message |-> InvalidId(runtime_id), return_value |-> None]
InvokeNotFound(method_name) ==
    InvokeReply(DISP_E_MEMBERNOTFOUND, <<": Method not found: ", Text(method_name)>>, None)
\* mutant: the failure reply carries the error text as its return value
InvokeFailedWithPayload(method_name) ==
    InvokeReply(E_FAIL, <<": Failed to invoke method '", Text(method_name), "': ", ErrText>>,
                PyStr(ErrText))
InvokeFailed(method_name) ==
    InvokeReply(E_FAIL, <<": Failed to invoke method '", Text(method_name), "': ", ErrText>>,
                None)
InvokeUnexpected(method_name) ==
    InvokeReply(E_FAIL, <<": An unexpected error occurred while invoking method '",
                          Text(method_name), "': ", ErrText>>, None)
\* mutant: the reply carries the method's name instead of the new handle
InvokeWrappedReturnsName(method_name, new_runtime_id) ==
    InvokeReply(S_OK, <<": Successfully invoked method: ", Text(method_name),
                        " and registered return value as COM object. Reference it with runtime_id: ",
                        new_runtime_id>>, PyStr(Text(method_name)))
InvokeWrapped(method_name, new_runtime_id) ==
    InvokeReply(S_OK, <<": Successfully invoked method: ", Text(method_name),
                        " and registered return value as COM object. Reference it with runtime_id: ",
                        new_runtime_id>>, PyStr(new_runtime_id))
InvokePassed(method_name, return_value) ==
    InvokeReply(S_OK, <<": Successfully invoked method: ", Text(method_name)>>, return_value)

\* if args is None: args = []
NormArgs(args) == IF args = None THEN PyList(<<>>) ELSE args
ArgLists == {None, PyList(<<>>)}

\* the lookups made on a value being registered: only if it has _oleobj_
WrapResolutions(v) == IF HasOleobj(v) THEN Resolutions ELSE {<<Unknown, Unknown>>}
WrapCalls(v, r) == IF HasOleobj(v) THEN ResolutionCalls(r) ELSE <<>>
WrapOutcomes(v, r) == IF HasOleobj(v) THEN ResolutionOutcomes(r) ELSE <<>>

\* returns: the values a member of the object may hand back
\* what getattr(com_object, method_name) can find (which native object an
\* attribute is does not matter to the call)
MethodsFound(method_name) == DescribeValues(method_name)

invoke_method(returns) ==
    /\ Idle
    /\ \E runtime_id \in Handles, method_name \in ReqNames, args \in ArgLists :
        /\ req' = [op |-> "InvokeMethod", runtime_id |-> runtime_id,
                   method_name |-> method_name, args |-> args]
        /\ UNCHANGED <<COM_ALLOWLIST, caller, frames>>
        /\ IF runtime_id \notin DOMAIN object_registry
           THEN /\ resp' = InvokeInvalid(runtime_id)
                /\ calls' = <<>>
                /\ outcomes' = <<>>
                /\ UNCHANGED <<object_registry, issued>>
           ELSE IF ~HasMember(method_name)
           THEN /\ resp' = InvokeNotFound(method_name)
                /\ calls' = <<"hasattr">>
                /\ outcomes' = <<PyBool(FALSE)>>
                /\ UNCHANGED <<object_registry, issued>>
           ELSE \/ \* hasattr raises something other than AttributeError
                   /\ resp' = InvokeUnexpected(method_name)
                   /\ calls' = <<"hasattr">>
                   /\ outcomes' = <<Raised>>
                   /\ UNCHANGED <<object_registry, issued>>
                \/ \* getattr raises
                   /\ resp' = InvokeFailed(method_name)
                   /\ calls' = <<"hasattr", "getattr">>
                   /\ outcomes' = <<PyBool(TRUE), Raised>>
                   /\ UNCHANGED <<object_registry, issued>>
                \/ \E method \in MethodsFound(method_name) :
                       IF ~Callable(method)
                       THEN \* calling it raises TypeError
                            /\ resp' = InvokeFailed(method_name)
                            /\ calls' = <<"hasattr", "getattr">>
                            /\ outcomes' = <<PyBool(TRUE), method>>
                            /\ UNCHANGED <<object_registry, issued>>
                       ELSE /\ NormArgs(args).t = "list"
                            /\ \/ \* the call raises
                                  /\ resp' = InvokeFailed(method_name)
                                  /\ calls' = <<"hasattr", "getattr", "call">>
                                  /\ outcomes' = <<PyBool(TRUE), method, Raised>>
                                  /\ UNCHANGED <<object_registry, issued>>
                               \/ \E return_value \in returns :
                                      IF InvokeIsComObject(return_value)
                                      THEN \E new_runtime_id \in uuid4(issued),
                                              r \in WrapResolutions(return_value) :
                                               /\ issued' = issued \cup {new_runtime_id}
                                               /\ object_registry' =
                                                      Put(object_registry, new_runtime_id,
                                                          Entry(return_value.ref, r[1], r[2]))
                                               /\ resp' = InvokeWrapped(method_name, new_runtime_id)
                                               /\ calls' = <<"hasattr", "getattr", "call">>
                                                           \o WrapCalls(return_value, r)
                                               /\ outcomes' = <<PyBool(TRUE), method, return_value>>
                                                              \o WrapOutcomes(return_value, r)
                                      ELSE /\ resp' = InvokePassed(method_name, return_value)
                                           /\ calls' = <<"hasattr", "getattr", "call">>
                                           /\ outcomes' = <<PyBool(TRUE), method, return_value>>
                                           /\ UNCHANGED <<object_registry, issued>>

\* ------------------------------------------------------------ GetProperty
GetReply(result, detail, value) ==
    [result |-> result, message |-> <<hr_to_string(result)>> \o detail, value |-> value]

\* mutant: an unknown runtime_id is reported as a missing member
GetInvalidAsNotFound(runtime_id) ==
    [result |-> DISP_E_MEMBERNOTFOUND,
     message |-> <<hr_to_string(DISP_E_MEMBERNOTFOUND), ": Invalid object ID: ", runtime_id>>,
     value |-> None]
GetInvalid(runtime_id) ==
    [result |-> E_INVALIDARG, message |-> InvalidId(runtime_id), value |-> None]
GetNotFound(property_name) ==
    GetReply(DISP_E_MEMBERNOTFOUND, <<": Property not found: ", Text(property_name)>>, None)
GetFailed(property_name) ==
    GetReply(E_FAIL, <<": Failed to get property '", Text(property_name), "': ", ErrText>>,
             None)
GetUnexpected(property_name) ==
    GetReply(E_FAIL, <<": An unexpected error occurred while getting property '",
                       Text(property_name), "': ", ErrText>>, None)
GetWrapped(property_name, new_runtime_id) ==
    GetReply(S_OK, <<": Successfully got property: ", Text(property_name),
                     " and registered COM object. Reference it with runtime_id: ",
                     new_runtime_id>>, PyStr(new_runtime_id))
\* mutant: the value is replaced by its string rendering
GetPassedAsText(property_name, value) ==
    GetReply(S_OK, <<": Successfully got property: ", Text(property_name)>>,
             PyStr(Text(StrOf(value))))
GetPassed(property_name, value) ==
    GetReply(S_OK, <<": Successfully got property: ", Text(property_name)>>, value)

get_property(returns) ==
    /\ Idle
    /\ \E runtime_id \in Handles, property_name \in ReqNames :
        /\ req' = [op |-> "GetProperty", runtime_id |-> runtime_id,
                   property_name |-> property_name]
        /\ UNCHANGED <<COM_ALLOWLIST, caller, frames>>
        /\ IF runtime_id \notin DOMAIN object_registry
           THEN /\ resp' = GetInvalid(runtime_id)
                /\ calls' = <<>>
                /\ outcomes' = <<>>
                /\ UNCHANGED <<object_registry, issued>>
           ELSE IF ~HasMember(property_name)
           THEN /\ resp' = GetNotFound(property_name)
                /\ calls' = <<"hasattr">>
                /\ outcomes' = <<PyBool(FALSE)>>
                /\ UNCHANGED <<object_registry, issued>>
           ELSE \/ \* hasattr raises something other than AttributeError
                   /\ resp' = GetUnexpected(property_name)
                   /\ calls' = <<"hasattr">>
                   /\ outcomes' = <<Raised>>
                   /\ UNCHANGED <<object_registry, issued>>
                \/ \* getattr raises
                   /\ resp' = GetFailed(property_name)
                   /\ calls' = <<"hasattr", "getattr">>
                   /\ outcomes' = <<PyBool(TRUE), Raised>>
                   /\ UNCHANGED <<object_registry, issued>>
                \/ \E value \in AttrValues(property_name, returns) :
                       IF GetPropertyIsComObject(value)
                       THEN \E new_runtime_id \in uuid4(issued),
                               r \in WrapResolutions(value) :
                                /\ issued' = issued \cup {new_runtime_id}
                                /\ object_registry' =
                                       Put(object_registry, new_runtime_id,
                                           Entry(value.ref, r[1], r[2]))
                                /\ resp' = GetWrapped(property_name, new_runtime_id)
                                /\ calls' = <<"hasattr", "getattr">> \o WrapCalls(value, r)
                                /\ outcomes' = <<PyBool(TRUE), value>> \o WrapOutcomes(value, r)
                       ELSE /\ resp' = GetPassed(property_name, value)
                            /\ calls' = <<"hasattr", "getattr">>
                            /\ outcomes' = <<PyBool(TRUE), value>>
                            /\ UNCHANGED <<object_registry, issued>>

\* ------------------------------------------------------------ SetProperty
SetReply(result, detail) ==
    [result |-> result, message |-> <<hr_to_string(result)>> \o detail]

SetInvalid(runtime_id) ==
    [result |-> E_INVALIDARG, message |-> InvalidId(runtime_id)]
SetNotFound(property_name) ==
    SetReply(DISP_E_MEMBERNOTFOUND, <<": Property not found: ", Text(property_name)>>)
\* mutant: the failure reply carries the runtime's own error code
SetFailedRawCode == SetReply("0x80020009", <<": Failed to set property: ", ErrText>>)
SetFailed == SetReply(E_FAIL, <<": Failed to set property: ", ErrText>>)
\* mutant: a set that went through is reported with the caveat code
SetOkWithCaveat(property_name) ==
    SetReply(S_FALSE, <<": Successfully set property: ", Text(property_name)>>)
SetOk(property_name) ==
    SetReply(S_OK, <<": Successfully set property: ", Text(property_name)>>)

SetValues == {PyBool(TRUE)}

set_property ==
    /\ Idle
    /\ \E runtime_id \in Handles, property_name \in ReqNames, value \in SetValues :
        /\ req' = [op |-> "SetProperty", runtime_id |-> runtime_id,
                   property_name |-> property_name, value |-> value]
        /\ UNCHANGED <<object_registry, COM_ALLOWLIST, issued, caller, frames>>
        /\ IF runtime_id \notin DOMAIN object_registry
           THEN /\ resp' = SetInvalid(runtime_id)
                /\ calls' = <<>>
                /\ outcomes' = <<>>
           ELSE IF ~HasMember(property_name)
           THEN /\ resp' = SetNotFound(property_name)
                /\ calls' = <<"hasattr">>
                /\ outcomes' = <<PyBool(FALSE)>>
           ELSE \/ \* hasattr raises something other than AttributeError
                   /\ resp' = SetFailed
                   /\ calls' = <<"hasattr">>
                   /\ outcomes' = <<Raised>>
                \/ \* setattr raises
                   /\ resp' = SetFailed
                   /\ calls' = <<"hasattr", "setattr">>
                   /\ outcomes' = <<PyBool(TRUE), Raised>>
                \/ /\ resp' = SetOk(property_name)
                   /\ calls' = <<"hasattr", "setattr">>
                   /\ outcomes' = <<PyBool(TRUE), None>>

\* ---------------------------------------------------------- DisposeObject
DisposeInvalid(runtime_id) ==
    [id |-> runtime_id, result |-> E_INVALIDARG,
     message |-> <<hr_to_string(E_INVALIDARG), ": Invalid object ID: ", runtime_id>>]

DisposeDone(runtime_id) ==
    [id |-> runtime_id, result |-> S_OK,
     message |-> <<hr_to_string(S_OK), ": Successfully disposed object">>]

\* mutant: an unknown id does not change the result of the whole call
DisposeOverallKeepsOk == S_OK
\* the result code of the whole call once an id was not in the registry
DisposeOverallOnInvalid == E_FAIL

\* mutant: the loop stops at the first id that is not in the registry
RECURSIVE DisposeLoopStopsAtInvalid(_, _, _, _, _)
DisposeLoopStopsAtInvalid(ids, i, reg, results, overall) ==
    IF i > Len(ids)
    THEN [reg |-> reg, results |-> results, overall |-> overall]
    ELSE IF ids[i] \notin DOMAIN reg
         THEN [reg |-> reg, results |-> Append(results, DisposeInvalid(ids[i])),
               overall |-> DisposeOverallOnInvalid]
         ELSE DisposeLoopStopsAtInvalid(ids, i + 1, Del(reg, ids[i]),
                                        Append(results, DisposeDone(ids[i])),
                                        overall)


\* the for loop of dispose_object from position i, as [reg, results, overall].
\* del of a key just found in the dictionary cannot raise while requests are
\* served one at a time, so the except branch is not taken.
RECURSIVE DisposeLoop(_, _, _, _, _)
DisposeLoop(ids, i, reg, results, overall) ==
    IF i > Len(ids)
    THEN [reg |-> reg, results |-> results, overall |-> overall]
    ELSE IF ids[i] \notin DOMAIN reg
         THEN DisposeLoop(ids, i + 1, reg,
                          Append(results, DisposeInvalid(ids[i])),
                          DisposeOverallOnInvalid)
         ELSE DisposeLoop(ids, i + 1, Del(reg, ids[i]),
                          Append(results, DisposeDone(ids[i])),
                          overall)

\* isinstance(runtime_id_or_ids, str): a single id becomes a one-element list
DisposeIds(runtime_id_or_ids) ==
    IF runtime_id_or_ids.t = "str" THEN <<runtime_id_or_ids.s>>
    ELSE runtime_id_or_ids.items

DisposeMessage(ids) == <<"Processed ", ToString(Len(ids)), " object(s)">>

IdLists == UNION {[1..n -> Handles] : n \in 0..MaxIds}
DisposeInputs == {PyStr(h) : h \in Handles} \cup {PyList(l) : l \in IdLists}

dispose_object ==
    /\ Idle
    /\ \E runtime_id_or_ids \in DisposeInputs :
        LET ids == DisposeIds(runtime_id_or_ids)
            out == DisposeLoop(ids, 1, object_registry, <<>>, S_OK)
        IN /\ req' = [op |-> "DisposeObject", runtime_id_or_ids |-> runtime_id_or_ids]
           /\ object_registry' = out.reg
           /\ resp' = [result |-> out.overall,
                       message |-> DisposeMessage(ids),
                       details |-> out.results]
           /\ calls' = <<>>
           /\ outcomes' = <<>>
           /\ UNCHANGED <<COM_ALLOWLIST, issued, caller, frames>>

\* --------------------------------------------------- ListActiveComObjects
\* one item per registry entry; the registry's iteration order is not modelled,
\* so the list is the set of its items
\* mutant: entries whose ProgID is not known are left out
ListObjectsKnownOnly(reg) ==
    {[runtime_id |-> h, prog_id |-> reg[h].prog_id, clsid |-> reg[h].clsid] :
        h \in {k \in DOMAIN reg : reg[k].prog_id # Unknown}}
ListObjects(reg) ==
    {[runtime_id |-> h, prog_id |-> reg[h].prog_id, clsid |-> reg[h].clsid] :
        h \in DOMAIN reg}

list_active_com_objects ==
    /\ Idle
    /\ req' = [op |-> "ListActiveComObjects"]
    /\ resp' = [result |-> S_OK,
                message |-> <<hr_to_string(S_OK), ": Found ",
                              ToString(Cardinality(DOMAIN object_registry)),
                              " active COM objects">>,
                objects |-> ListObjects(object_registry)]
    /\ calls' = <<>>
    /\ outcomes' = <<>>
    /\ UNCHANGED <<object_registry, COM_ALLOWLIST, issued, caller, frames>>

\* the reply leaves for the caller and the server waits for the next call
send_reply ==
    /\ ~Idle
    /\ req' = NoRequest
    /\ resp' = NoReply
    /\ calls' = <<>>
    /\ outcomes' = <<>>
    /\ caller' = IF caller.scripted
                 THEN [caller EXCEPT !.log = Append(@, [req |-> req, resp |-> resp,
                                                         outcomes |-> outcomes])]
                 ELSE caller
    /\ UNCHANGED <<object_registry, COM_ALLOWLIST, issued, frames>>

Next ==
    \/ co_create_instance
    \/ query_interface
    \/ get_type_information
    \/ invoke_method(RetValues)
    \/ get_property(RetValues)
    \/ set_property
    \/ dispose_object
    \/ list_active_com_objects
    \/ send_reply

Spec == Init /\ [][Next]_vars
SpecAllowlist == InitAllowlist /\ [][Next]_vars

\* ------------------------------------------- the two tests on any value
\* the same handlers, with members that hand back any of MarkedValues
NextClassifier ==
    \/ co_create_instance
    \/ invoke_method(MarkedValues)
    \/ get_property(MarkedValues)
    \/ send_reply

SpecClassifier == Init /\ [][NextClassifier]_vars

\* ------------------------------------------------------ a scripted caller
\* The caller sends, in order: Create, List, QueryInterface(H1), GetProperty(H1,
\* Visible), SetProperty(H1, Visible, True), Dispose(H1), GetProperty(H1,
\* Visible), where H1 is the handle the Create returned.  The runtime answers
\* each foreign call as it likes.
\* the handle the first exchange of the log returned, if it returned one
FirstHandle(log) ==
    IF Len(log) >= 1 /\ log[1].resp.result = S_OK THEN {log[1].resp.runtime_id.s} ELSE {}
\* the requests the script allows at position k
ScriptRequests(k, log) ==
    CASE k = 1 -> {[op |-> "CreateObject", identifier |-> i] : i \in Identifiers}
      [] k = 2 -> {[op |-> "ListActiveComObjects"]}
      [] k = 3 -> {[op |-> "QueryInterface", runtime_id |-> h, iid |-> iid] :
                      h \in FirstHandle(log), iid \in Iids}
      [] k \in {4, 7} -> {[op |-> "GetProperty", runtime_id |-> h,
                            property_name |-> NameVisible] : h \in FirstHandle(log)}
      [] k = 5 -> {[op |-> "SetProperty", runtime_id |-> h, property_name |-> NameVisible,
                    value |-> PyBool(TRUE)] : h \in FirstHandle(log)}
      [] k = 6 -> {[op |-> "DisposeObject", runtime_id_or_ids |-> PyStr(h)] :
                      h \in FirstHandle(log)}
      [] OTHER -> {}
\* r is the request a scripted caller sends next
ScriptSends(r) == caller.scripted /\ r \in ScriptRequests(Len(caller.log) + 1, caller.log)

InitScenario ==
    /\ object_registry = <<>>
    /\ COM_ALLOWLIST = <<>>
    /\ issued = {}
    /\ req = NoRequest
    /\ resp = NoReply
    /\ calls = <<>>
    /\ outcomes = <<>>
    /\ caller = ScriptedCaller
    /\ frames = NoFrames

\* the tool the script calls next
ScriptCalls(op) ==
    \E r \in ScriptRequests(Len(caller.log) + 1, caller.log) : r.op = op

NextScenario ==
    \/ ScriptCalls("CreateObject") /\ co_create_instance /\ ScriptSends(req')
    \/ ScriptCalls("ListActiveComObjects") /\ list_active_com_objects /\ ScriptSends(req')
    \/ ScriptCalls("QueryInterface") /\ query_interface /\ ScriptSends(req')
    \/ ScriptCalls("GetProperty") /\ get_property(RetValues) /\ ScriptSends(req')
    \/ ScriptCalls("SetProperty") /\ set_property /\ ScriptSends(req')
    \/ ScriptCalls("DisposeObject") /\ dispose_object /\ ScriptSends(req')
    \/ send_reply

SpecScenario == InitScenario /\ [][NextScenario]_vars

\* --------------------------------------- two requests, statement by statement
\* Nothing in the module keeps two tool calls apart.  Here a Dispose(h) and
\* another tool call on the same handle h run at once, one statement at a
\* time: the membership test and the registry read of the other tool, the
\* membership test and the del of Dispose.  What the other tool does after its
\* read no longer looks at the entry of h and is one step.
RequestsOn(h) ==
    {[op |-> "QueryInterface", runtime_id |-> h, iid |-> iid] : iid \in Iids}
    \cup {[op |-> "GetTypeInformation", runtime_id |-> h]}
    \cup {[op |-> "InvokeMethod", runtime_id |-> h, method_name |-> n, args |-> a] :
              n \in ReqNames, a \in ArgLists}
    \cup {[op |-> "GetProperty", runtime_id |-> h, property_name |-> n] : n \in ReqNames}
    \cup {[op |-> "SetProperty", runtime_id |-> h, property_name |-> n, value |-> v] :
              n \in ReqNames, v \in SetValues}

\* the return of a tool whose "runtime_id not in object_registry" test held
InvalidReply(r) ==
    CASE r.op = "QueryInterface" -> QueryInvalid(r.runtime_id)
      [] r.op = "GetTypeInformation" -> TypeInfoInvalid(r.runtime_id)
      [] r.op = "InvokeMethod" -> InvokeInvalid(r.runtime_id)
      [] r.op = "GetProperty" -> GetInvalid(r.runtime_id)
      [] r.op = "SetProperty" -> SetInvalid(r.runtime_id)

\* object_registry[runtime_id] raised KeyError outside every try: the call ends
\* with the exception instead of a dictionary
Propagated == [result |-> "raised", error |-> "KeyError"]

\* the item Dispose records when del raised
DisposeFailed(runtime_id) ==
    [id |-> runtime_id, result |-> E_FAIL,
     message |-> <<hr_to_string(E_FAIL), ": Failed to dispose object: ", ErrText>>]

Same(reply, reg, seen) == [reply |-> reply, reg |-> reg, issued |-> seen]
\* a returned value is registered under a new id
Registered(v, reg, seen) ==
    {[id |-> new, reg |-> Put(reg, new, Entry(v.ref, r[1], r[2])),
      issued |-> seen \cup {new}] : new \in uuid4(seen), r \in WrapResolutions(v)}

\* what a tool can return, and leave in the registry, once it holds com_object
BodyResults(r, reg, seen) ==
    CASE r.op = "QueryInterface" ->
             {Same(QueryFailed, reg, seen)}
             \cup {[reply |-> QueryOk(r.iid, new),
                    reg |-> Put(reg, QueryKey(r.runtime_id, new), Entry(i, res[1], res[2])),
                    issued |-> seen \cup {new}] :
                       i \in Objs, new \in uuid4(seen), res \in Resolutions}
      [] r.op = "GetTypeInformation" ->
             {Same(TypeInfoFailed, reg, seen)}
             \cup {Same(TypeInfoOk(get_type_info(DirNames, attrs, 1, EmptyTypeInfo)), reg, seen) :
                       attrs \in AttrOutcomes}
      [] r.op = "SetProperty" ->
             IF ~HasMember(r.property_name)
             THEN {Same(SetNotFound(r.property_name), reg, seen)}
             ELSE {Same(SetFailed, reg, seen), Same(SetOk(r.property_name), reg, seen)}
      [] r.op = "GetProperty" ->
             IF ~HasMember(r.property_name)
             THEN {Same(GetNotFound(r.property_name), reg, seen)}
             ELSE {Same(GetUnexpected(r.property_name), reg, seen),
                   Same(GetFailed(r.property_name), reg, seen)}
                  \cup {Same(GetPassed(r.property_name, v), reg, seen) :
                            v \in {x \in AttrValues(r.property_name, RetValues) :
                                       ~GetPropertyIsComObject(x)}}
                  \cup UNION {{Same(GetWrapped(r.property_name, w.id), w.reg, w.issued) :
                                  w \in Registered(v, reg, seen)} :
                                  v \in {x \in AttrValues(r.property_name, RetValues) :
                                             GetPropertyIsComObject(x)}}
      [] r.op = "InvokeMethod" ->
             IF ~HasMember(r.method_name)
             THEN {Same(InvokeNotFound(r.method_name), reg, seen)}
             ELSE {Same(InvokeUnexpected(r.method_name), reg, seen),
                   Same(InvokeFailed(r.method_name), reg, seen)}
                  \cup (IF \E method \in MethodsFound(r.method_name) : Callable(method)
                        THEN {Same(InvokePassed(r.method_name, v), reg, seen) :
                                  v \in {x \in RetValues : ~InvokeIsComObject(x)}}
                             \cup UNION {{Same(InvokeWrapped(r.method_name, w.id), w.reg,
                                               w.issued) : w \in Registered(v, reg, seen)} :
                                             v \in {x \in RetValues : InvokeIsComObject(x)}}
                        ELSE {})

\* both requests arrive while the server waits
receive_pair ==
    /\ Idle
    /\ frames = NoFrames
    /\ \E h \in DOMAIN object_registry : \E r \in RequestsOn(h) :
           frames' = [other |-> Frame(r),
                      dispose |-> Frame([op |-> "DisposeObject",
                                         runtime_id_or_ids |-> PyStr(h)])]
    /\ UNCHANGED <<object_registry, COM_ALLOWLIST, issued, req, resp, calls, outcomes, caller>>

\* if runtime_id not in object_registry: return ...
liveness_check ==
    /\ frames.other.pc = "check"
    /\ frames' = IF frames.other.request.runtime_id \notin DOMAIN object_registry
                 THEN [frames EXCEPT !.other.pc = "done",
                                     !.other.reply = InvalidReply(frames.other.request)]
                 ELSE [frames EXCEPT !.other.pc = "read"]
    /\ UNCHANGED <<object_registry, COM_ALLOWLIST, issued, req, resp, calls, outcomes, caller>>

\* com_object = object_registry[runtime_id]["object"]
registry_read ==
    /\ frames.other.pc = "read"
    /\ frames' = IF frames.other.request.runtime_id \in DOMAIN object_registry
                 THEN [frames EXCEPT
                          !.other.pc = "body",
                          !.other.com_object =
                              PyInt(object_registry[frames.other.request.runtime_id].object)]
                 ELSE [frames EXCEPT !.other.pc = "done", !.other.reply = Propagated]
    /\ UNCHANGED <<object_registry, COM_ALLOWLIST, issued, req, resp, calls, outcomes, caller>>

\* the try block of the tool, on the com_object it holds
handler_body ==
    /\ frames.other.pc = "body"
    /\ \E b \in BodyResults(frames.other.request, object_registry, issued) :
           /\ frames' = [frames EXCEPT !.other.pc = "done", !.other.reply = b.reply]
           /\ object_registry' = b.reg
           /\ issued' = b.issued
    /\ UNCHANGED <<COM_ALLOWLIST, req, resp, calls, outcomes, caller>>

\* for runtime_id in runtime_id_or_ids: if runtime_id not in object_registry: ...
dispose_check ==
    /\ frames.dispose.pc = "check"
    /\ LET ids == DisposeIds(frames.dispose.request.runtime_id_or_ids)
       IN frames' = IF ids[1] \notin DOMAIN object_registry
                    THEN [frames EXCEPT
                             !.dispose.pc = "done",
                             !.dispose.reply = [result |-> DisposeOverallOnInvalid,
                                                message |-> DisposeMessage(ids),
                                                details |-> <<DisposeInvalid(ids[1])>>]]
                    ELSE [frames EXCEPT !.dispose.pc = "del"]
    /\ UNCHANGED <<object_registry, COM_ALLOWLIST, issued, req, resp, calls, outcomes, caller>>

\* del object_registry[runtime_id], inside its try
dispose_del ==
    /\ frames.dispose.pc = "del"
    /\ LET ids == DisposeIds(frames.dispose.request.runtime_id_or_ids)
       IN IF ids[1] \in DOMAIN object_registry
          THEN /\ object_registry' = Del(object_registry, ids[1])
               /\ frames' = [frames EXCEPT
                                !.dispose.pc = "done",
                                !.dispose.reply = [result |-> S_OK,
                                                   message |-> DisposeMessage(ids),
                                                   details |-> <<DisposeDone(ids[1])>>]]
          ELSE /\ object_registry' = object_registry
               /\ frames' = [frames EXCEPT
                                !.dispose.pc = "done",
                                !.dispose.reply = [result |-> E_FAIL,
                                                   message |-> DisposeMessage(ids),
                                                   details |-> <<DisposeFailed(ids[1])>>]]
    /\ UNCHANGED <<COM_ALLOWLIST, issued, req, resp, calls, outcomes, caller>>

\* both calls have ended
reply_pair ==
    /\ frames.other.pc = "done"
    /\ frames.dispose.pc = "done"
    /\ frames' = NoFrames
    /\ UNCHANGED <<object_registry, COM_ALLOWLIST, issued, req, resp, calls, outcomes, caller>>

NextInterleaved ==
    \/ frames = NoFrames /\ co_create_instance
    \/ send_reply
    \/ receive_pair
    \/ liveness_check
    \/ registry_read
    \/ handler_body
    \/ dispose_check
    \/ dispose_del
    \/ reply_pair

SpecInterleaved == Init /\ [][NextInterleaved]_vars

\* ================================================================ claims
Live(h) == h \in DOMAIN object_registry
Disposed(h) == h \in issued /\ h \notin DOMAIN object_registry
Unborn(h) == h \notin issued

HandleOps == {"QueryInterface", "GetTypeInformation", "InvokeMethod", "GetProperty",
              "SetProperty"}
MemberOps == {"InvokeMethod", "GetProperty", "SetProperty"}
\* the member name a request names
MemberName(r) == IF r.op = "InvokeMethod" THEN r.method_name ELSE r.property_name
\* the payload field of a reply
Payload(r, reply) ==
    CASE r.op \in {"CreateObject", "QueryInterface"} -> reply.runtime_id
      [] r.op = "GetTypeInformation" -> reply.type_info
      [] r.op = "InvokeMethod" -> reply.return_value
      [] r.op = "GetProperty" -> reply.value
\* the native objects the registry holds
Held(reg) == {reg[h].object : h \in DOMAIN reg}
ListHandles(reg) == {item.runtime_id : item \in ListObjects(reg)}

\* C1: QueryInterface, Describe, Invoke, GetProperty and SetProperty on a handle
\* that is not Live return E_INVALIDARG with the message "<description>: Invalid
\* object ID: <handle>", which depends on the handle alone (the same for a handle
\* never issued and one disposed), call nothing in the foreign runtime and leave
\* the registry unchanged.
C1_NotLiveIsInvalidArg ==
    [][(req'.op \in HandleOps /\ req'.runtime_id \notin DOMAIN object_registry)
         => /\ resp'.result = E_INVALIDARG
            /\ resp'.result \notin {E_FAIL, DISP_E_MEMBERNOTFOUND}
            /\ resp'.message = <<"E_INVALIDARG (0x80070057) - One or more arguments are invalid",
                                 ": Invalid object ID: ", req'.runtime_id>>
            /\ calls' = <<>>
            /\ object_registry' = object_registry]_vars

C1_Witness ==
    /\ req.op = "GetProperty"
    /\ Disposed(req.runtime_id)
    /\ resp.result = E_INVALIDARG
    /\ \E h \in Handles : Unborn(h)

\* C2 as stated: a Dispose of a single handle that was disposed before returns
\* E_INVALIDARG as the result of the call and leaves the registry unchanged.
C2_SecondDisposeReturnsInvalidArg ==
    [][(/\ req'.op = "DisposeObject"
        /\ Len(DisposeIds(req'.runtime_id_or_ids)) = 1
        /\ Disposed(DisposeIds(req'.runtime_id_or_ids)[1]))
         => /\ resp'.result = E_INVALIDARG
            /\ object_registry' = object_registry]_vars

\* C2 amended: a Dispose of a single handle that was disposed before returns
\* E_FAIL as the result of the call, with one details entry whose result is
\* E_INVALIDARG, and leaves the registry (its handles and its size) unchanged.
C2_SecondDisposeFailsWithInvalidItem ==
    [][(/\ req'.op = "DisposeObject"
        /\ Len(DisposeIds(req'.runtime_id_or_ids)) = 1
        /\ Disposed(DisposeIds(req'.runtime_id_or_ids)[1]))
         => /\ resp'.result = E_FAIL
            /\ Len(resp'.details) = 1
            /\ resp'.details[1].id = DisposeIds(req'.runtime_id_or_ids)[1]
            /\ resp'.details[1].result = E_INVALIDARG
            /\ object_registry' = object_registry
            /\ Cardinality(DOMAIN object_registry') = Cardinality(DOMAIN object_registry)]_vars

C2_Witness ==
    /\ req.op = "DisposeObject"
    /\ req.runtime_id_or_ids.t = "str"
    /\ Disposed(req.runtime_id_or_ids.s)
    /\ resp.details[1].result = E_INVALIDARG
    /\ object_registry # <<>>

\* element i of ids is Live when the loop reaches it: it is in the registry at
\* the call and no earlier element names it
LiveWhenProcessed(ids, i, reg) ==
    ids[i] \in DOMAIN reg /\ \A j \in 1..(i - 1) : ids[j] # ids[i]

\* C3: a Dispose over a list returns one details entry per element, in order,
\* S_OK for an element Live when processed and E_INVALIDARG otherwise; no element
\* is in the registry afterwards and nothing else is removed; the message gives
\* the number of elements; the aggregate is S_OK iff every entry is S_OK and
\* E_FAIL otherwise (so E_FAIL for a mixed list).
C3_DisposeList ==
    [][req'.op = "DisposeObject" =>
        LET ids == DisposeIds(req'.runtime_id_or_ids)
            details == resp'.details
        IN /\ Len(details) = Len(ids)
           /\ \A i \in 1..Len(ids) :
                  /\ details[i].id = ids[i]
                  /\ details[i].result =
                         IF LiveWhenProcessed(ids, i, object_registry)
                         THEN S_OK ELSE E_INVALIDARG
                  /\ ids[i] \notin DOMAIN object_registry'
           /\ DOMAIN object_registry' =
                  DOMAIN object_registry \ {ids[i] : i \in 1..Len(ids)}
           /\ \A h \in DOMAIN object_registry' : object_registry'[h] = object_registry[h]
           /\ resp'.message[2] = ToString(Len(ids))
           /\ (resp'.result = S_OK) <=> (\A i \in 1..Len(ids) : details[i].result = S_OK)
           /\ resp'.result \in {S_OK, E_FAIL}]_vars

C3_Witness ==
    /\ req.op = "DisposeObject"
    /\ req.runtime_id_or_ids.t = "list"
    /\ resp.result = E_FAIL
    /\ Len(resp.details) = 2
    /\ resp.details[1].result = E_INVALIDARG
    /\ resp.details[2].result = S_OK
    /\ resp.details[1].id # resp.details[2].id

\* the handle a reply of an inserting tool carries, if it carries one
IssuedBy(r, reply) ==
    IF reply.result # S_OK THEN {}
    ELSE IF r.op \in {"CreateObject", "QueryInterface"} THEN {reply.runtime_id.s}
    ELSE IF r.op = "InvokeMethod" /\ reply.return_value.t = "str" THEN {reply.return_value.s}
    ELSE IF r.op = "GetProperty" /\ reply.value.t = "str" THEN {reply.value.s}
    ELSE {}

\* C4: a handle a tool returns was never issued before (it is neither Live nor
\* Disposed at the call) and is Live after the call; a handle becomes Live only
\* from Unborn, a Disposed handle stays Disposed, and a handle that stays Live
\* keeps its native object.
C4_HandlesNeverReused ==
    [][/\ \A h \in IssuedBy(req', resp') : Unborn(h) /\ h \in DOMAIN object_registry'
       /\ \A h \in Handles :
              /\ (h \in DOMAIN object_registry' /\ ~Live(h)) => Unborn(h)
              /\ Disposed(h) => (h \in issued' /\ h \notin DOMAIN object_registry')
              /\ (Live(h) /\ h \in DOMAIN object_registry')
                     => object_registry'[h].object = object_registry[h].object
              /\ Live(h) => h \in issued']_vars

C4_Witness ==
    /\ req.op = "CreateObject"
    /\ resp.result = S_OK
    /\ Live(resp.runtime_id.s)
    /\ \E h \in Handles : Disposed(h) /\ h # resp.runtime_id.s

\* identifier in allowlist, for a Python list
OnList(identifier, allowlist) == \E i \in 1..Len(allowlist) : allowlist[i] = identifier

\* C5: Create of an identifier missing from a non-empty allow-list returns
\* E_ACCESSDENIED with a null handle, does not call Dispatch and leaves the
\* registry unchanged; in every other case (the list is empty, or names the
\* identifier) Create does not return E_ACCESSDENIED.
C5_AllowList ==
    [][req'.op = "CreateObject" =>
        IF COM_ALLOWLIST # <<>> /\ ~OnList(req'.identifier, COM_ALLOWLIST)
        THEN /\ resp'.result = E_ACCESSDENIED
             /\ resp'.runtime_id = None
             /\ \A i \in 1..Len(calls') : calls'[i] # "Dispatch"
             /\ object_registry' = object_registry
        ELSE resp'.result # E_ACCESSDENIED]_vars

C5_Witness ==
    /\ req.op = "CreateObject"
    /\ COM_ALLOWLIST # <<>>
    /\ resp.result = E_ACCESSDENIED
    /\ object_registry # <<>>

\* C6: a Create that returns S_OK returns a handle that List() does not show
\* before the call and shows after it; a Create that does not return S_OK
\* leaves the registry as it was.
C6_CreateShowsInList ==
    [][req'.op = "CreateObject" =>
        IF resp'.result = S_OK
        THEN /\ resp'.runtime_id.t = "str"
             /\ resp'.runtime_id.s \notin ListHandles(object_registry)
             /\ resp'.runtime_id.s \in ListHandles(object_registry')
        ELSE object_registry' = object_registry]_vars

C6_Witness ==
    /\ req.op = "CreateObject"
    /\ resp.result = S_OK
    /\ resp.runtime_id.s \in ListHandles(object_registry)
    /\ Cardinality(DOMAIN object_registry) = 2

\* C7 as stated: after a Dispose, a handle whose details entry is S_OK named a
\* native object that no registry entry holds any more.
C7_DisposeReleasesObject ==
    [][req'.op = "DisposeObject" =>
        \A i \in 1..Len(resp'.details) :
            resp'.details[i].result = S_OK =>
                object_registry[resp'.details[i].id].object \notin Held(object_registry')]_vars

\* C8 as stated: the message of every reply is the description of the reply's
\* result code followed by a detail clause.
C8_MessageStartsWithDescription ==
    ~Idle => (Len(resp.message) >= 2 /\ resp.message[1] = hr_to_string(resp.result))

\* C9: in a reply of Create, QueryInterface, Describe, Invoke or GetProperty whose
\* result is not S_OK the payload is None, and a reply of Create or
\* QueryInterface whose result is S_OK carries a handle that is in the registry.
C9_CodeAndPayloadAgree ==
    (req.op \in {"CreateObject", "QueryInterface", "GetTypeInformation", "InvokeMethod",
                 "GetProperty"})
      => /\ resp.result # S_OK => Payload(req, resp) = None
         /\ (resp.result = S_OK /\ req.op \in {"CreateObject", "QueryInterface"})
                => /\ resp.runtime_id.t = "str"
                   /\ Live(resp.runtime_id.s)

C9_Witness ==
    /\ req.op = "InvokeMethod"
    /\ resp.result = E_FAIL
    /\ Len(calls) = 3
    /\ resp.return_value = None

\* C10: Invoke, GetProperty and SetProperty on a Live handle with a name the
\* object has no member for return DISP_E_MEMBERNOTFOUND, make no foreign call
\* beyond the existence check, and leave the registry unchanged.
C10_AbsentMemberNotFound ==
    [][(/\ req'.op \in MemberOps
        /\ Live(req'.runtime_id)
        /\ MemberName(req') \notin MethodNames \cup PropertyNames)
         => /\ resp'.result = DISP_E_MEMBERNOTFOUND
            /\ calls' = <<"hasattr">>
            /\ object_registry' = object_registry]_vars

C10_Witness ==
    /\ req.op = "SetProperty"
    /\ Live(req.runtime_id)
    /\ req.property_name = NameAbsent
    /\ resp.result = DISP_E_MEMBERNOTFOUND

ValueOps == {"InvokeMethod", "GetProperty"}
\* the runtime handed Invoke or GetProperty a value (the call or read answered)
HasReturned(r, outs) ==
    \/ r.op = "InvokeMethod" /\ Len(outs) >= 3 /\ outs[3] # Raised
    \/ r.op = "GetProperty" /\ Len(outs) >= 2 /\ outs[2] # Raised
Returned(r, outs) == IF r.op = "InvokeMethod" THEN outs[3] ELSE outs[2]
\* the decision of the tool's own test on a value: TRUE for Wrap
DecidesWrap(r, v) ==
    IF r.op = "InvokeMethod" THEN InvokeIsComObject(v) ELSE GetPropertyIsComObject(v)

\* C11: when Invoke or GetProperty is handed a value its test classifies Wrap, it
\* returns S_OK with a handle W that was Unborn, is Live and listed afterwards and
\* holds that value.  Every Live handle, W included, is served like a handle from
\* Create: QueryInterface, Describe, Invoke, GetProperty and SetProperty on it are
\* never answered E_INVALIDARG and leave it Live, a Dispose item naming it is
\* answered S_OK, and it stops being Live only by a Dispose that names it.
C11_WrappedHandleServes ==
    [][/\ (req'.op \in ValueOps /\ HasReturned(req', outcomes')
             /\ DecidesWrap(req', Returned(req', outcomes')))
          => /\ resp'.result = S_OK
             /\ Payload(req', resp').t = "str"
             /\ Unborn(Payload(req', resp').s)
             /\ Payload(req', resp').s \in ListHandles(object_registry')
             /\ object_registry'[Payload(req', resp').s].object
                    = Returned(req', outcomes').ref
       /\ (req'.op \in HandleOps /\ Live(req'.runtime_id))
          => /\ resp'.result # E_INVALIDARG
             /\ req'.runtime_id \in DOMAIN object_registry'
       /\ req'.op = "DisposeObject"
          => \A i \in 1..Len(resp'.details) :
                 LiveWhenProcessed(DisposeIds(req'.runtime_id_or_ids), i, object_registry)
                     => resp'.details[i].result = S_OK
       /\ \A h \in Handles :
              (Live(h) /\ h \notin DOMAIN object_registry')
                  => /\ req'.op = "DisposeObject"
                     /\ \E i \in 1..Len(resp'.details) : resp'.details[i].id = h]_vars

\* a later request served on a handle that Invoke issued for a helper object,
\* which only a Wrap-classified return value puts into the registry
C11_Witness ==
    /\ req.op = "SetProperty"
    /\ Live(req.runtime_id)
    /\ object_registry[req.runtime_id].object \in HelperObjs
    /\ resp.result = S_OK

\* C12: when Invoke or GetProperty is handed a value its test classifies
\* PassThrough, it returns S_OK with that very value as the payload (return_value /
\* value), the payload is not a handle, and the registry and the set of issued
\* handles are unchanged.
C12_PassThroughUnchanged ==
    [][(req'.op \in ValueOps /\ HasReturned(req', outcomes')
          /\ ~DecidesWrap(req', Returned(req', outcomes')))
         => /\ resp'.result = S_OK
            /\ Payload(req', resp') = Returned(req', outcomes')
            /\ Payload(req', resp') \notin {PyStr(h) : h \in Handles}
            /\ object_registry' = object_registry
            /\ issued' = issued]_vars

C12_Witness ==
    /\ req.op = "GetProperty"
    /\ outcomes = <<PyBool(TRUE), PyInt(42)>>
    /\ resp.result = S_OK
    /\ resp.value = PyInt(42)
    /\ object_registry # <<>>

\* C13: the registry is empty at process start; whenever the server waits for a
\* request List() can be served, and it returns S_OK with an objects list that
\* has exactly one item per Live handle (so none when the registry is empty, and
\* none for a handle Unborn or Disposed), each item with the prog_id and clsid
\* of the handle's entry; List() leaves the registry unchanged, and the entry of
\* a handle is the same from its insertion for as long as the handle is Live.
C13_ListShowsLiveHandles ==
    /\ object_registry = <<>>
    /\ [](Idle => ENABLED list_active_com_objects)
    /\ [][/\ req'.op = "ListActiveComObjects"
             => /\ resp'.result = S_OK
                /\ {item.runtime_id : item \in resp'.objects} = DOMAIN object_registry
                /\ Cardinality(resp'.objects) = Cardinality(DOMAIN object_registry)
                /\ \A item \in resp'.objects :
                       /\ ~Unborn(item.runtime_id) /\ ~Disposed(item.runtime_id)
                       /\ item.prog_id = object_registry[item.runtime_id].prog_id
                       /\ item.clsid = object_registry[item.runtime_id].clsid
                /\ object_registry' = object_registry
          /\ \A h \in Handles :
                 (Live(h) /\ h \in DOMAIN object_registry')
                     => object_registry'[h] = object_registry[h]]_vars

C13_Witness ==
    /\ req.op = "ListActiveComObjects"
    /\ resp.result = S_OK
    /\ Cardinality(resp.objects) = 1
    /\ \E h \in Handles : Disposed(h)
    /\ \E item \in resp.objects : item.prog_id = Unknown /\ item.clsid = ResolvedClsid

\* some foreign-runtime call of the request being answered raised
CallFailed == \E i \in 1..Len(outcomes) : outcomes[i] = Raised
\* the server takes a request of every tool
AcceptsRequest ==
    /\ ENABLED co_create_instance
    /\ ENABLED query_interface
    /\ ENABLED get_type_information
    /\ ENABLED invoke_method(RetValues)
    /\ ENABLED get_property(RetValues)
    /\ ENABLED set_property
    /\ ENABLED dispose_object
    /\ ENABLED list_active_com_objects

\* C14: whichever foreign-runtime call of a request raises (Dispatch,
\* QueryInterface, dir, hasattr, getattr, setattr, the method call, an identity
\* lookup), the tool still answers with a dictionary that has a message and a
\* result code from the module's seven codes, that reply leaves for the caller,
\* and the server then waits for the next request and takes one of every tool.
C14_FailedCallStillAnswers ==
    /\ [](CallFailed => /\ {"result", "message"} \subseteq DOMAIN resp
                        /\ resp.result \in ResultVocabulary
                        /\ Len(resp.message) >= 1
                        /\ ENABLED send_reply)
    /\ [][CallFailed => (req' = NoRequest /\ object_registry' = object_registry)]_vars
    /\ [](Idle => AcceptsRequest)

C14_Witness ==
    /\ req.op = "SetProperty"
    /\ calls = <<"hasattr", "setattr">>
    /\ outcomes = <<PyBool(TRUE), Raised>>
    /\ resp.result = E_FAIL

\* in exchange k of the log the runtime did what the scenario supposes: Dispatch
\* built an object (1), QueryInterface raised for the iid (3), the property read
\* gave a boolean (4), the property write was accepted (5)
ScenarioRuntime(k, log) ==
    CASE k = 1 -> Len(log[k].outcomes) >= 1 /\ log[k].outcomes[1] # Raised
      [] k = 3 -> log[k].outcomes = <<Raised>>
      [] k = 4 -> Len(log[k].outcomes) = 2 /\ log[k].outcomes[2].t = "bool"
      [] k = 5 -> log[k].outcomes = <<PyBool(TRUE), None>>
      [] OTHER -> TRUE
\* the reply the scenario names for exchange k; h1 is the handle of exchange 1
ScenarioReply(k, log, h1) ==
    CASE k = 1 -> log[k].resp.result = S_OK /\ log[k].resp.runtime_id.t = "str"
      [] k = 2 -> /\ log[k].resp.result = S_OK
                  /\ Cardinality(log[k].resp.objects) = 1
                  /\ \A item \in log[k].resp.objects : item.runtime_id = h1
      [] k = 3 -> log[k].resp.result = E_NOINTERFACE /\ log[k].resp.runtime_id = None
      [] k = 4 -> /\ log[k].resp.result = S_OK
                  /\ log[k].resp.value \in {PyBool(TRUE), PyBool(FALSE)}
                  /\ log[k].resp.value = log[k].outcomes[2]
      [] k = 5 -> log[k].resp.result = S_OK
      [] k = 6 -> log[k].resp.result = S_OK
      [] k = 7 -> log[k].resp.result = E_INVALIDARG /\ log[k].resp.value = None
      [] OTHER -> TRUE

\* C15: a caller that starts with an empty registry and an empty allow-list and
\* sends Create, List, QueryInterface(H1, iid), GetProperty(H1, Visible),
\* SetProperty(H1, Visible, True), Dispose(H1), GetProperty(H1, Visible) gets, for
\* as long as the runtime does what the scenario supposes (the object is built,
\* the iid is not supported, Visible is a boolean, the write is accepted): S_OK
\* with a handle H1; a list of exactly one item, whose handle is H1;
\* E_NOINTERFACE with a null handle; S_OK with the boolean itself; S_OK; S_OK;
\* E_INVALIDARG.
C15_Scenario ==
    \A k \in 1..Len(caller.log) :
        (\A j \in 1..k : ScenarioRuntime(j, caller.log))
            => ScenarioReply(k, caller.log, caller.log[1].resp.runtime_id.s)

C15_Witness ==
    /\ Len(caller.log) = 7
    /\ \A j \in 1..7 : ScenarioRuntime(j, caller.log)
    /\ caller.log[7].resp.result = E_INVALIDARG
    /\ object_registry = <<>>

\* C16 as stated: GetProperty decides Wrap for a value exactly when Invoke
\* decides Wrap for the same value: a property value is answered with a new
\* handle if and only if invoke_method's test holds of it.
C16_ClassifyIdentically ==
    (req.op = "GetProperty" /\ HasReturned(req, outcomes))
        => ((resp.value.t = "str") <=> InvokeIsComObject(Returned(req, outcomes)))

\* the layered algorithm: the four rules in order, PassThrough when none matches
LayeredWrap(v) ==
    IF HasOleobj(v) THEN TRUE
    ELSE IF TypeName(v) = "CDispatch" THEN TRUE
    ELSE IF Contains(ModuleOf(v), <<"w", "i", "n", "3", "2", "c", "o", "m">>) THEN TRUE
    ELSE IF Contains(StrOf(v), <<"<", "C", "O", "M", "O", "b", "j", "e", "c", "t">>) THEN TRUE
    ELSE FALSE

\* C17: for a value a method returned, Invoke registers it and answers with the
\* new handle if and only if one of the four rules matches (the value has
\* _oleobj_; its type name is CDispatch; its module name contains win32com; its
\* string rendering contains <COMObject), and answers with the value itself when
\* none matches.
C17_InvokeLayered ==
    (req.op = "InvokeMethod" /\ HasReturned(req, outcomes))
        => IF LayeredWrap(Returned(req, outcomes))
           THEN /\ resp.return_value.t = "str"
                /\ Live(resp.return_value.s)
                /\ object_registry[resp.return_value.s].object = Returned(req, outcomes).ref
           ELSE resp.return_value = Returned(req, outcomes)

\* Invoke wrapped a value that only the fourth rule matches
C17_Witness ==
    /\ req.op = "InvokeMethod"
    /\ HasReturned(req, outcomes)
    /\ ~HasOleobj(outcomes[3])
    /\ TypeName(outcomes[3]) = "VARIANT"
    /\ ModuleOf(outcomes[3]) = ModBuiltins
    /\ StrOf(outcomes[3]) = ReprCom
    /\ resp.return_value.t = "str"
    /\ Live(resp.return_value.s)

\* C18: QueryInterface on a Live handle h.  When com_object.QueryInterface
\* answers, the reply is S_OK with a handle n that differs from h and was not in
\* the registry, the registry gains exactly the entry of n, which holds the
\* interface, and every entry it had, h's included, is unchanged.  When it
\* raises, the reply is E_NOINTERFACE with a null handle and the registry is
\* unchanged.
C18_QueryInterface ==
    [][(req'.op = "QueryInterface" /\ Live(req'.runtime_id))
         => IF outcomes'[1] # Raised
            THEN /\ resp'.result = S_OK
                 /\ resp'.runtime_id.t = "str"
                 /\ resp'.runtime_id.s # req'.runtime_id
                 /\ resp'.runtime_id.s \notin DOMAIN object_registry
                 /\ DOMAIN object_registry' = DOMAIN object_registry \cup {resp'.runtime_id.s}
                 /\ object_registry'[resp'.runtime_id.s].object = outcomes'[1].ref
                 /\ \A k \in DOMAIN object_registry : object_registry'[k] = object_registry[k]
            ELSE /\ resp'.result = E_NOINTERFACE
                 /\ resp'.runtime_id = None
                 /\ object_registry' = object_registry]_vars

C18_Witness ==
    /\ req.op = "QueryInterface"
    /\ resp.result = S_OK
    /\ resp.runtime_id.s # req.runtime_id
    /\ Live(req.runtime_id)
    /\ Live(resp.runtime_id.s)
    /\ object_registry[resp.runtime_id.s].object = object_registry[req.runtime_id].object

\* the member names each list of a description holds
InMethods(info) == {info.methods[i].name : i \in 1..Len(info.methods)}
InProperties(info) == {info.properties[i].name : i \in 1..Len(info.properties)}
InEvents(info) == {info.events[i] : i \in 1..Len(info.events)}
InErrors(info) == {info.errors_encountered[i].member : i \in 1..Len(info.errors_encountered)}
\* the list the claim puts a member in, given what reading it gave
ListOf(name, attr) ==
    IF attr = Raised THEN "errors_encountered"
    ELSE IF Callable(attr) THEN "methods"
    ELSE IF name[1] = "o" /\ name[2] = "n" /\ Len(name) >= 3 /\ name[3] \in Upper THEN "events"
    ELSE "properties"

\* C19: Describe on a Live handle for which dir() answers returns S_OK whatever
\* members cannot be read; each name dir() gave is in the list its reading
\* calls for (errors_encountered if getattr raised, methods if the attribute is
\* callable, events if it is not callable and the name is "on" followed by a
\* capital, properties otherwise) and in no other, the four lists together have
\* one entry per name, and the registry is unchanged.
C19_DescribeClassifiesEveryMember ==
    [][(/\ req'.op = "GetTypeInformation"
        /\ Live(req'.runtime_id)
        /\ outcomes'[1] # Raised)
         => LET names == outcomes'[1].items
                info == resp'.type_info
            IN /\ resp'.result = S_OK
               /\ Len(outcomes') = Len(names) + 1
               /\ \A i \in 1..Len(names) :
                      LET n == Text(names[i])
                          l == ListOf(names[i], outcomes'[i + 1])
                      IN /\ (n \in InErrors(info)) <=> (l = "errors_encountered")
                         /\ (n \in InMethods(info)) <=> (l = "methods")
                         /\ (n \in InEvents(info)) <=> (l = "events")
                         /\ (n \in InProperties(info)) <=> (l = "properties")
               /\ Len(info.methods) + Len(info.properties) + Len(info.events)
                      + Len(info.errors_encountered) = Len(names)
               /\ object_registry' = object_registry]_vars

\* the first member could not be read and the two after it were classified
C19_Witness ==
    /\ req.op = "GetTypeInformation"
    /\ resp.result = S_OK
    /\ outcomes[2] = Raised
    /\ InErrors(resp.type_info) = {"Quit"}
    /\ InProperties(resp.type_info) = {"Visible"}
    /\ InEvents(resp.type_info) = {"onClick"}

\* what a lookup stores: its answer, or "Unknown" when it raised or was not made
Stored(lookups, i) ==
    IF i <= Len(lookups) /\ lookups[i] # Raised THEN lookups[i].s ELSE Unknown
\* the identity lookups among the outcomes of a request: those after the object
Lookups(r, outs) ==
    SubSeq(outs, IF r.op = "InvokeMethod" THEN 4 ELSE IF r.op = "GetProperty" THEN 3 ELSE 2,
           Len(outs))
\* the request is one that inserts: Dispatch built an object, QueryInterface
\* answered on a Live handle, or a returned value was classified Wrap
Inserts(r, outs, reg) ==
    \/ r.op = "CreateObject" /\ Len(outs) >= 1 /\ outs[1] # Raised
    \/ r.op = "QueryInterface" /\ r.runtime_id \in DOMAIN reg /\ outs[1] # Raised
    \/ r.op \in ValueOps /\ HasReturned(r, outs) /\ DecidesWrap(r, Returned(r, outs))

\* C20: a request that inserts an entry returns S_OK with a new handle and
\* inserts the entry whether its identity lookups answer or raise.  Create
\* stores a bracketed identifier as clsid and any other as prog_id, and in the
\* other half the answer of its one lookup, or "Unknown" if that raised.
\* QueryInterface, Invoke and GetProperty store as clsid the answer of GetCLSID
\* and as prog_id the answer of ProgIDFromCLSID, and "Unknown" for a lookup that
\* raised or was not made.
C20_ResolutionNeverFails ==
    [][Inserts(req', outcomes', object_registry)
         => LET n == Payload(req', resp')
                lookups == Lookups(req', outcomes')
            IN /\ resp'.result = S_OK
               /\ n.t = "str"
               /\ n.s \notin DOMAIN object_registry
               /\ n.s \in DOMAIN object_registry'
               /\ IF req'.op = "CreateObject"
                  THEN IF req'.identifier[1] = "{"
                          /\ req'.identifier[Len(req'.identifier)] = "}"
                       THEN /\ object_registry'[n.s].clsid = Text(req'.identifier)
                            /\ object_registry'[n.s].prog_id = Stored(lookups, 1)
                       ELSE /\ object_registry'[n.s].prog_id = Text(req'.identifier)
                            /\ object_registry'[n.s].clsid = Stored(lookups, 1)
                  ELSE /\ object_registry'[n.s].clsid = Stored(lookups, 1)
                       /\ object_registry'[n.s].prog_id = Stored(lookups, 2)]_vars

\* Invoke registered a value whose CLSID was found and whose ProgID lookup raised
C20_Witness ==
    /\ req.op = "InvokeMethod"
    /\ Len(outcomes) = 5
    /\ outcomes[4] # Raised
    /\ outcomes[5] = Raised
    /\ resp.result = S_OK
    /\ object_registry[resp.return_value.s].prog_id = Unknown
    /\ object_registry[resp.return_value.s].clsid = ResolvedClsid

\* the handles a step adds to the registry
Added == DOMAIN object_registry' \ DOMAIN object_registry

\* C21: no step changes the object, prog_id or clsid stored under a handle that
\* stays in the registry.  A tool other than Dispose removes no entry and adds
\* at most one; it adds none when its result is not S_OK, when it is
\* SetProperty, Describe or List, and when the value Invoke or GetProperty was
\* handed is classified PassThrough.  Dispose adds no entry and removes only
\* handles its input names.
C21_EntriesImmutable ==
    [][/\ \A h \in DOMAIN object_registry \cap DOMAIN object_registry' :
              object_registry'[h] = object_registry[h]
       /\ req'.op \notin {"none", "DisposeObject"}
          => /\ DOMAIN object_registry \subseteq DOMAIN object_registry'
             /\ Cardinality(Added) <= 1
             /\ resp'.result # S_OK => Added = {}
             /\ req'.op \in {"SetProperty", "GetTypeInformation", "ListActiveComObjects"}
                    => Added = {}
             /\ (req'.op \in ValueOps /\ HasReturned(req', outcomes')
                   /\ ~DecidesWrap(req', Returned(req', outcomes')))
                    => Added = {}
       /\ req'.op = "DisposeObject"
          => /\ Added = {}
             /\ DOMAIN object_registry \ DOMAIN object_registry'
                    \subseteq {DisposeIds(req'.runtime_id_or_ids)[i] :
                                   i \in 1..Len(DisposeIds(req'.runtime_id_or_ids))}
       /\ req'.op = "none" => object_registry' = object_registry]_vars

\* GetProperty added an entry next to one that differs from it and stayed
C21_Witness ==
    /\ req.op = "GetProperty"
    /\ resp.result = S_OK
    /\ resp.value.t = "str"
    /\ Live(resp.value.s)
    /\ Live(req.runtime_id)
    /\ object_registry[req.runtime_id] # object_registry[resp.value.s]

\* C22: Dispose goes through its list in order against the registry as it is
\* at each element: of the occurrences of a handle that is Live at the call the
\* first gets S_OK and removes it and every later one gets E_INVALIDARG, and
\* the result of a call with such a repeated handle is E_FAIL.  Dispose of the
\* empty list returns S_OK with empty details and leaves the registry unchanged.
C22_DisposeRepeatsAndEmpty ==
    [][req'.op = "DisposeObject" =>
        LET ids == DisposeIds(req'.runtime_id_or_ids)
        IN /\ Len(resp'.details) = Len(ids)
           /\ \A i \in 1..Len(ids) :
                  Live(ids[i]) =>
                      /\ resp'.details[i].result =
                             IF \E j \in 1..(i - 1) : ids[j] = ids[i]
                             THEN E_INVALIDARG ELSE S_OK
                      /\ ids[i] \notin DOMAIN object_registry'
           /\ (\E i, j \in 1..Len(ids) : i # j /\ ids[i] = ids[j] /\ Live(ids[i]))
                  => resp'.result = E_FAIL
           /\ ids = <<>> => /\ resp'.result = S_OK
                            /\ resp'.details = <<>>
                            /\ object_registry' = object_registry]_vars

\* a Live handle named twice: S_OK, then E_INVALIDARG, E_FAIL for the call
C22_Witness ==
    /\ req.op = "DisposeObject"
    /\ req.runtime_id_or_ids.t = "list"
    /\ Len(resp.details) = 2
    /\ resp.details[1].id = resp.details[2].id
    /\ resp.details[1].result = S_OK
    /\ resp.details[2].result = E_INVALIDARG
    /\ resp.result = E_FAIL
    /\ object_registry # <<>>

\* C23 as stated: when a Dispose(h) and another tool call on the same Live
\* handle h run statement by statement in any order, the other call ends with a
\* reply dictionary, either E_INVALIDARG or a reply it gives on the object it
\* holds, and never with an exception raised between its membership test and
\* its registry read.
C23_OtherCallStillReplies ==
    frames.other.pc = "done"
        => /\ frames.other.reply # Propagated
           /\ frames.other.reply.result \in ResultVocabulary
====
